---------------------------- MODULE Spec2Model ----------------------------
(***************************************************************************)
(* A model of neurolib's Hopf integrator (models/hopf/timeIntegration.py)  *)
(* and of the Model superclass that drives it (models/model.py).           *)
(*                                                                         *)
(* Conventions.                                                            *)
(*  - numpy arrays are sequences; a 2-D array is a sequence of rows.  The  *)
(*    source's 0-based indices are kept: At1(s, k) and At2(A, r, c) read   *)
(*    element k / (r, c) of the source.                                    *)
(*  - Times (dt, duration, t, lastT) are integers, in ms, and exact.  dt   *)
(*    is a perfect square so that sqrt(dt) is exact, and tau_ou divides dt *)
(*    so that the division by tau_ou is.                                   *)
(*  - The integrator combines its inputs with +, - and * only.  The values *)
(*    it stores (xs, ys, x_ext, y_ext, the coupling inputs) are integers   *)
(*    kept modulo ValueModulus: the explicit Euler iteration of the cubic  *)
(*    drift is unstable on integer inputs and leaves the machine integers  *)
(*    after four steps.  Reduction modulo ValueModulus commutes with the   *)
(*    three operations, so values that are equal in the program are equal  *)
(*    in the model, and values that differ in the model differ in the      *)
(*    program.                                                             *)
(*  - numpy's global random generator is a counter: a draw is a fixed      *)
(*    function of the counter, seeding sets the counter.                   *)
(***************************************************************************)
EXTENDS Integers, Sequences, FiniteSets, TLC

VARIABLES
    params,         \* the parameter dictionary (Model.params)
    rng,            \* state of numpy's global random generator
    pc,             \* position of the running call
    err,            \* the exception that ended the call, or "none"
    loc,            \* locals of the running timeIntegration call
    ret,            \* the tuple (t, xs, ys) the last timeIntegration call returned
    prev,           \* the tuple returned by the call before that
    calls,          \* timeIntegration calls started so far
    between,        \* draws other code made from the generator between calls
    outputs,        \* Model.outputs
    state,          \* Model.state
    ctl             \* Model.run's arguments and integrate_chunkwise's locals

vars == <<params, rng, pc, err, loc, ret, prev, calls, between, outputs, state, ctl>>

modelVars == <<outputs, state, ctl>>

---------------------------------------------------------------------------
(* Bounds of the model *)

\* Largest duration (ms) of a directly called timeIntegration.
MaxDuration == 5

\* Largest number of draws other code makes between two calls.
MaxOtherDraws == 1

\* Largest entry of lengthMat.
MaxLength == 2

\* Largest total duration (ms) of a run of the Model.
MaxTotal == 5

\* Largest chunksize (samples) of a chunkwise run.
MaxChunkSize == 2

\* Largest number of chunks a chunkwise run is followed through.
MaxChunks == 5

\* Largest number of timeIntegration calls in one behaviour.
MaxCalls == 2

\* Period of the random generator's counter.
RngPeriod == 7

\* Largest number of direct setOutput calls in one behaviour.
MaxStores == 2

\* Largest width of an initial condition xs_init.
MaxInitWidth == 3

---------------------------------------------------------------------------
(* Arithmetic and array helpers *)

Min(a, b) == IF a < b THEN a ELSE b

Max(a, b) == IF a > b THEN a ELSE b

\* ceil(n / d) for n >= 0, d > 0
Ceil(n, d) == (n + d - 1) \div d

\* np.sqrt on a perfect square
Sqrt(n) == CHOOSE s \in 0..n : s * s = n

\* np.around(n / d) for n >= 0, d > 0: halves go to the even neighbour
around(n, d) ==
    LET q == n \div d
        r == n % d
    IN  IF 2 * r < d THEN q
        ELSE IF 2 * r > d THEN q + 1
        ELSE IF q % 2 = 0 THEN q ELSE q + 1

\* a Python index k into an axis of length n: a negative k counts from the end
PyIdx(k, n) == IF k < 0 THEN k + n ELSE k

At1(s, k) == s[PyIdx(k, Len(s)) + 1]

At2(A, r, c) == A[r + 1][PyIdx(c, Len(A[r + 1])) + 1]

Set1(s, k, v) == [s EXCEPT ![k + 1] = v]

Set2(A, r, c, v) == [A EXCEPT ![r + 1][c + 1] = v]

Rows(A) == Len(A)

Cols(A) == IF Len(A) = 0 THEN 0 ELSE Len(A[1])

\* np.zeros((n,)) and np.zeros((r, c))
zeros1(n) == [k \in 1..n |-> 0]

zeros2(r, c) == [i \in 1..r |-> [k \in 1..c |-> 0]]

\* A[:, 0:], the array with no column cut
ColsFromStart(A, k) == A

\* A[:, k:] for 0 <= k
ColsFrom(A, k) == [r \in 1..Len(A) |-> SubSeq(A[r], Min(k, Len(A[r])) + 1, Len(A[r]))]

\* A[:, :k], the first columns in place of the last
FirstCols(A, k) == [r \in 1..Len(A) |-> SubSeq(A[r], 1, Min(k, Len(A[r])))]

\* A[:, -k:] for k >= 1
LastCols(A, k) == [r \in 1..Len(A) |-> SubSeq(A[r], Max(Len(A[r]) - k, 0) + 1, Len(A[r]))]

\* np.hstack((A, B)) of two 2-D arrays with the same number of rows
hstack2(A, B) == [r \in 1..Len(A) |-> A[r] \o B[r]]

RECURSIVE MaxOfSeq(_)
MaxOfSeq(s) == IF Len(s) = 1 THEN s[1] ELSE Max(s[1], MaxOfSeq(Tail(s)))

\* np.max of a non-empty 2-D array
MaxOfMat(A) == MaxOfSeq([r \in 1..Len(A) |-> MaxOfSeq(A[r])])

---------------------------------------------------------------------------
(* numpy's global random generator *)

\* params["seed"] of a parameter set that sets no seed (None)
NoSeed == -1

\* `if RNGseed:` -- None and 0 are both false
seedIsSet(seed) == seed # NoSeed /\ seed # 0

\* np.random.seed(s): the generator's state is a function of the seed alone
seeded(s) == (3 * s) % RngPeriod

\* the k-th standard-normal draw from generator state g
draw(g, k) == (((g + k) % RngPeriod) % 3) - 1

\* np.random.standard_normal((n, len)) from state g: row-major draws
standard_normal(g, n, len) == [r \in 1..n |-> [k \in 1..len |-> draw(g, (r - 1) * len + (k - 1))]]

advance(g, k) == (g + k) % RngPeriod

---------------------------------------------------------------------------
(* timeIntegration: setup (lines 16-64) *)

\* Stored values are kept modulo ValueModulus.
ValueModulus == 251

Val(e) == e % ValueModulus

\* lines 50-55: the integer code of the coupling scheme, -1 where the code raises
couplingCode(c) ==
    IF c = "diffusive" THEN 0
    ELSE IF c = "additive" THEN 1
    ELSE -1

\* dp.computeDelayMatrix(lengthMat, signalV): lengthMat / signalV, kept as a fraction
computeDelayMatrix(lengthMat, signalV) == [num |-> lengthMat, den |-> signalV]

\* delay steps whose diagonal keeps the lengths of lengthMat's diagonal
delayStepsKeepDiagonal(p) ==
    LET N == Len(p.Cmat)
        Dmat == computeDelayMatrix(p.lengthMat, p.signalV)
    IN  [no \in 1..N |-> [l \in 1..N |-> around(Dmat.num[no][l], Dmat.den * p.dt)]]

\* lines 57-63: Dmat with its diagonal zeroed (the zero matrix for N = 1),
\* divided by dt and rounded to integers
delaySteps(p) ==
    LET N == Len(p.Cmat)
        Dmat == computeDelayMatrix(p.lengthMat, p.signalV)
    IN  IF N = 1 THEN zeros2(N, N)
        ELSE [no \in 1..N |-> [l \in 1..N |->
                 IF no = l THEN 0 ELSE around(Dmat.num[no][l], Dmat.den * p.dt)]]

\* what the setup changes when the coupling is checked after the delay
\* matrix is written back
setupLate(p) ==
    [err |-> IF couplingCode(p.coupling) = -1 THEN "ValueError_coupling" ELSE "none",
     params |-> [p EXCEPT !.Dmat_ndt = delaySteps(p)]]

\* lines 16-64: raise on an unknown coupling, else write params["Dmat_ndt"]
setup(p) ==
    IF couplingCode(p.coupling) = -1
    THEN [err |-> "ValueError_coupling", params |-> p]
    ELSE [err |-> "none", params |-> [p EXCEPT !.Dmat_ndt = delaySteps(p)]]

---------------------------------------------------------------------------
(* timeIntegration: initialization (lines 68-102) *)

\* a time vector one sample short when duration is no multiple of dt
arangeFloor(duration, dt) == [k \in 1..(duration \div dt) |-> (k - 1) * dt]

\* np.arange(0, duration, dt): the samples 0, dt, 2 dt, ... below duration
arange(duration, dt) == [k \in 1..Ceil(duration, dt) |-> (k - 1) * dt]

\* whether numpy assigns a value of shape (r, c) to a slice of shape (R, C)
assignable(r, c, R, C) == (r = R \/ r = 1) /\ (c = C \/ c = 1)

\* the value V broadcast to shape (R, C)
broadcastTo(V, R, C) ==
    [i \in 1..R |-> [k \in 1..C |->
        V[IF Len(V) = 1 THEN 1 ELSE i][IF Len(V[1]) = 1 THEN 1 ELSE k]]]

\* A[:, from:from+Cols(V)] = V, for V of the slice's shape
assignCols(A, from, V) ==
    [i \in 1..Len(A) |-> [k \in 1..Len(A[i]) |->
        IF k - 1 >= from /\ k - 1 < from + Cols(V) THEN V[i][k - from] ELSE A[i][k]]]

\* np.dot(init, np.ones((1, n))) for a single-column init
dotOnes(init, n) == [r \in 1..Len(init) |-> [k \in 1..n |-> init[r][1]]]

\* a first step at the largest delay itself, without the step before it
startIndexNoWarmup(Dmat_ndt) == MaxOfMat(Dmat_ndt)

\* lines 71-72: the timestep to start integration at
startIndex(Dmat_ndt) == MaxOfMat(Dmat_ndt) + 1

\* lines 94-95: the generator the draws start from
generatorAtDraw(seed, g) == IF seedIsSet(seed) THEN seeded(seed) ELSE g

\* lines 68-102 for a parameter set p whose Dmat_ndt is written, with the
\* generator in state g: the buffers, or the numpy error that ends the call
initBuffers(p, g) ==
    LET N == Len(p.Cmat)
        t == arange(p.duration, p.dt)
        lenT == Len(t)
        startind == startIndex(p.Dmat_ndt)
        rows == Rows(p.xs_init)
        width == Cols(p.xs_init)
        L == Max(lenT - startind, 0)
        g0 == generatorAtDraw(p.seed, g)
        nx == [r \in 1..N |-> [k \in 1..L |-> Val(standard_normal(g0, N, L)[r][k])]]
        ny == [r \in 1..N |-> [k \in 1..L |->
                  Val(standard_normal(advance(g0, N * L), N, L)[r][k])]]
        result(e, xs, ys, gen, n) ==
            [err |-> e, t |-> t, startind |-> startind, xs |-> xs, ys |-> ys,
             rng |-> gen, draws |-> n]
    IN  IF width = 1
        THEN \* lines 80-81, then 94-97
            LET xs0 == dotOnes(p.xs_init, lenT)
                ys0 == dotOnes(p.ys_init, lenT)
            IN  IF ~assignable(N, L, rows, L)
                THEN result("ValueError_shape", xs0, ys0, advance(g0, N * L), N * L)
                ELSE result("none",
                            assignCols(xs0, startind, broadcastTo(nx, rows, L)),
                            assignCols(ys0, startind, broadcastTo(ny, rows, L)),
                            advance(g0, 2 * N * L), 2 * N * L)
        ELSE \* lines 84-87, then 94-97
            LET k == Min(startind, lenT)
                xtail == LastCols(p.xs_init, startind)
                ytail == LastCols(p.ys_init, startind)
                xs0 == zeros2(N, lenT)
            IN  IF ~assignable(rows, Cols(xtail), N, k)
                THEN result("ValueError_shape", xs0, xs0, g, 0)
                ELSE result("none",
                            assignCols(assignCols(xs0, 0, broadcastTo(xtail, N, k)), startind, nx),
                            assignCols(assignCols(xs0, 0, broadcastTo(ytail, N, k)), startind, ny),
                            advance(g0, 2 * N * L), 2 * N * L)

---------------------------------------------------------------------------
(* timeIntegration_njit_elementwise: one timestep (lines 172-216) *)

\* a delayed read that forgets the one-step offset
delayedIndexNoOffset(i, d) == i - d

\* lines 188, 193: the history column node `no` reads of node l at step i
delayedIndex(i, d) == i - d - 1

\* additive coupling without the global coupling strength
additiveTermNoGain(K_gl, c, delayed) == c * delayed

\* line 193: one neighbour's term of the additive coupling input
additiveTerm(K_gl, c, delayed) == K_gl * c * delayed

\* diffusive coupling that subtracts nothing
diffusiveTermNoOwn(K_gl, c, delayed, own) == K_gl * c * delayed

\* line 188: one neighbour's term of the diffusive coupling input
diffusiveTerm(K_gl, c, delayed, own) == K_gl * c * (delayed - own)

\* lines 186-194: the terms of neighbours l, l+1, ..., N-1 added up
RECURSIVE couplingSum(_, _, _, _, _)
couplingSum(p, L, i, no, l) ==
    IF l >= L.N THEN 0
    ELSE LET delayed == At2(L.xs, l, delayedIndex(i, At2(L.Dmat_ndt, no, l)))
             own == At2(L.xs, no, i - 1)
             c == At2(p.Cmat, no, l)
             term == IF L.coupling = 0 THEN diffusiveTerm(p.K_gl, c, delayed, own)
                     ELSE IF L.coupling = 1 THEN additiveTerm(p.K_gl, c, delayed)
                     ELSE 0
         IN  term + couplingSum(p, L, i, no, l + 1)

\* an external drive that relaxes to its mean and takes no noise
ouUpdateNoNoise(ext, mean, dt, tau_ou, sigma_ou, sqrt_dt, noise) ==
    ext + ((mean - ext) * dt) \div tau_ou

\* lines 215-216: the Ornstein-Uhlenbeck update of one external drive
ouUpdate(ext, mean, dt, tau_ou, sigma_ou, sqrt_dt, noise) ==
    ext + ((mean - ext) * dt) \div tau_ou + sigma_ou * sqrt_dt * noise

\* lines 178-216: the body of the node loop for node `no` at step i
nodeBody(p, L, i, no) ==
    LET noise_x == At2(L.xs, no, i)
        noise_y == At2(L.ys, no, i)
        xin == Val(couplingSum(p, L, i, no, 0))
        yin == 0
        xp == At2(L.xs, no, i - 1)
        yp == At2(L.ys, no, i - 1)
        x_rhs == (p.a - xp * xp - yp * yp) * xp - p.w * yp + xin + At1(L.x_ext, no)
        y_rhs == (p.a - xp * xp - yp * yp) * yp + p.w * xp + yin + At1(L.y_ext, no)
    IN  [L EXCEPT
            !.noise_xs = Set1(@, no, noise_x),
            !.noise_ys = Set1(@, no, noise_y),
            !.xs_input_d = Set1(@, no, xin),
            !.ys_input_d = Set1(@, no, yin),
            !.xs = Set2(@, no, i, Val(xp + p.dt * x_rhs)),
            !.ys = Set2(@, no, i, Val(yp + p.dt * y_rhs)),
            !.x_ext = Set1(@, no, Val(ouUpdate(At1(L.x_ext, no), p.x_ext_mean, p.dt,
                                               p.tau_ou, p.sigma_ou, Sqrt(p.dt), noise_x))),
            !.y_ext = Set1(@, no, Val(ouUpdate(At1(L.y_ext, no), p.y_ext_mean, p.dt,
                                               p.tau_ou, p.sigma_ou, Sqrt(p.dt), noise_y)))]

\* lines 175-216: nodes no, no+1, ..., N-1 in turn, each on the buffers the
\* nodes before it have written
RECURSIVE nodeLoop(_, _, _, _)
nodeLoop(p, L, i, no) ==
    IF no >= L.N THEN L ELSE nodeLoop(p, nodeBody(p, L, i, no), i, no + 1)

\* one iteration of the loop of line 172
timeStep(p, L) ==
    [nodeLoop(p, L, L.i, 0) EXCEPT !.i = L.i + 1, !.steps = L.steps + 1]

---------------------------------------------------------------------------
(* The running call *)

\* the locals of a call that has not yet set any of them; g is the generator's
\* state when the call starts
noLocals(g) ==
    [N |-> 0, coupling |-> -1, Dmat_ndt |-> << >>, t |-> << >>, startind |-> 0,
     xs |-> << >>, ys |-> << >>, x_ext |-> << >>, y_ext |-> << >>,
     xs_input_d |-> << >>, ys_input_d |-> << >>, noise_xs |-> << >>, noise_ys |-> << >>,
     i |-> 0, steps |-> 0, draws |-> 0, rng0 |-> g]

noResult == [t |-> << >>, xs |-> << >>, ys |-> << >>]

\* lines 16-64
TI_Setup ==
    /\ pc = "setup"
    /\ LET s == setup(params)
       IN  /\ params' = s.params
           /\ IF s.err # "none"
              THEN /\ pc' = "raised"
                   /\ err' = s.err
                   /\ loc' = loc
              ELSE /\ pc' = "init"
                   /\ err' = err
                   /\ loc' = [loc EXCEPT !.N = Len(params.Cmat),
                                          !.coupling = couplingCode(params.coupling),
                                          !.Dmat_ndt = s.params.Dmat_ndt]
    /\ UNCHANGED <<rng, ret, prev, calls, between, modelVars>>

\* lines 68-102
TI_Init ==
    /\ pc = "init"
    /\ LET b == initBuffers(params, rng)
       IN  /\ rng' = b.rng
           /\ loc' = [loc EXCEPT !.t = b.t, !.startind = b.startind, !.i = b.startind,
                                  !.xs = b.xs, !.ys = b.ys, !.draws = b.draws,
                                  !.x_ext = zeros1(loc.N), !.y_ext = zeros1(loc.N),
                                  !.xs_input_d = zeros1(loc.N), !.ys_input_d = zeros1(loc.N),
                                  !.noise_xs = zeros1(loc.N), !.noise_ys = zeros1(loc.N)]
           /\ IF b.err # "none"
              THEN pc' = "raised" /\ err' = b.err
              ELSE pc' = "loop" /\ err' = err
    /\ UNCHANGED <<params, ret, prev, calls, between, modelVars>>

\* lines 172-216: one iteration of the time loop
TI_Step ==
    /\ pc = "loop"
    /\ loc.i < Len(loc.t)
    /\ loc' = timeStep(params, loc)
    /\ UNCHANGED <<params, rng, pc, err, ret, prev, calls, between, modelVars>>

\* line 218, once the time loop has run out
TI_Return ==
    /\ pc = "loop"
    /\ loc.i >= Len(loc.t)
    /\ ret' = [t |-> loc.t, xs |-> loc.xs, ys |-> loc.ys]
    /\ prev' = ret
    /\ pc' = "returned"
    /\ UNCHANGED <<params, rng, err, loc, calls, between, modelVars>>

\* a caller invokes timeIntegration(params) directly
Call ==
    /\ ctl.mode = "direct"
    /\ pc \in {"idle", "returned"}
    /\ calls < MaxCalls
    /\ pc' = "setup"
    /\ calls' = calls + 1
    /\ loc' = noLocals(rng)
    /\ UNCHANGED <<params, rng, err, ret, prev, between, modelVars>>

\* other code draws from numpy's global generator between two calls
OtherDraw ==
    /\ pc = "returned"
    /\ between < MaxOtherDraws
    /\ rng' = advance(rng, 1)
    /\ between' = between + 1
    /\ UNCHANGED <<params, pc, err, loc, ret, prev, calls, modelVars>>

---------------------------------------------------------------------------
(* timeIntegration as a whole: the result of one call *)

\* lines 172-216: the time loop from step L.i on
RECURSIVE timeLoop(_, _)
timeLoop(p, L) == IF L.i >= Len(L.t) THEN L ELSE timeLoop(p, timeStep(p, L))

\* the locals once lines 16-102 have run without error
localsAfterInit(p, b, g) ==
    LET N == Len(p.Cmat)
    IN  [noLocals(g) EXCEPT !.N = N, !.coupling = couplingCode(p.coupling),
                            !.Dmat_ndt = p.Dmat_ndt,
                            !.t = b.t, !.startind = b.startind, !.i = b.startind,
                            !.xs = b.xs, !.ys = b.ys, !.draws = b.draws,
                            !.x_ext = zeros1(N), !.y_ext = zeros1(N),
                            !.xs_input_d = zeros1(N), !.ys_input_d = zeros1(N),
                            !.noise_xs = zeros1(N), !.noise_ys = zeros1(N)]

\* timeIntegration(p) with the generator in state g
timeIntegration(p, g) ==
    LET s == setup(p)
        b == initBuffers(s.params, g)
        L == timeLoop(s.params, localsAfterInit(s.params, b, g))
    IN  IF s.err # "none" THEN [err |-> s.err, t |-> << >>, xs |-> << >>, ys |-> << >>]
        ELSE IF b.err # "none" THEN [err |-> b.err, t |-> << >>, xs |-> << >>, ys |-> << >>]
        ELSE [err |-> "none", t |-> L.t, xs |-> L.xs, ys |-> L.ys]

---------------------------------------------------------------------------
(* Model (model.py) *)

\* a default output that names the other state variable
otherOutput == "y"

\* lines 45-46: the default output the Model is constructed with
default_output == "x"

\* getMaxDelay() + 1, lines 109 and 161
startindtOf(c) == c.maxDelay + 1

\* appended timestamps that keep the chunk's own clock
unshiftedTime(data, last, startindt, dt) == SubSeq(data, startindt + 1, Len(data))

\* lines 165-169: the chunk's timestamps past the warm-up, moved to follow `last`
shiftedTime(data, last, startindt, dt) ==
    LET cut == SubSeq(data, startindt + 1, Len(data))
    IN  [k \in 1..Len(cut) |-> cut[k] + last - (startindt - 1) * dt]

\* name.split("."), line 190, for the names in use
split(name) ==
    IF name = "BOLD.t" THEN <<"BOLD", "t">>
    ELSE IF name = "BOLD.BOLD" THEN <<"BOLD", "BOLD">>
    ELSE <<name>>

\* line 204: the empty dictionary a new group starts as; an entry is in a
\* dictionary once it is not << >>
noGroup == [t |-> << >>, BOLD |-> << >>]

\* whether np.hstack((old, new)) of line 174 has a result: both arrays have the
\* same number of dimensions, and the same extent along every axis that is
\* not the stacked one
hstackable(oldNdim, old, rank, new) ==
    /\ oldNdim = rank
    /\ rank >= 2 => Len(old) = Len(new)
    /\ rank >= 3 => Len(old[1][1]) = Len(new[1][1])

\* np.hstack((old, new)): along the only axis of 1-D arrays, else along axis 1
hstack(rank, old, new) == IF rank = 1 THEN old \o new ELSE hstack2(old, new)

\* a truncation that takes data of any rank
canTruncateAny(rank) == TRUE

\* lines 163 and 170: the ranks whose initial conditions the code cuts off
canTruncate(rank) == rank = 1 \/ rank = 2

\* whether the name is in self.outputs, line 156 (line 199 for a dotted name)
isStored(outs, name) ==
    LET keys == split(name)
    IN  IF Len(keys) = 1 THEN outs[name] # << >>
        ELSE outs[keys[1]] # << >> /\ outs[keys[1]][keys[2]] # << >>

\* self.outputs under the name, dotted or not
storedAs(outs, name) ==
    LET keys == split(name)
    IN  IF Len(keys) = 1 THEN outs[name] ELSE outs[keys[1]][keys[2]]

\* lines 143-206: setOutput(name, data, append, remove_ics) for array data of
\* the given rank; an output is in self.outputs once it is not << >>, and
\* outs.ndim holds the number of dimensions of the plain outputs
setOutput(outs, name, data, rank, append, remove_ics, startindt, dt) ==
    LET stored(value, ndim) ==
            [err |-> "none",
             outputs |-> [outs EXCEPT ![name] = value, !.ndim[name] = ndim]]
        merged(cut) ==
            IF hstackable(outs.ndim[name], outs[name], rank, cut)
            THEN stored(hstack(rank, outs[name], cut), rank)
            ELSE [err |-> "ValueError_hstack", outputs |-> outs]
        keys == split(name)
    IN  IF Len(keys) = 1
        THEN \* lines 154-186
             IF append /\ outs[name] # << >>
             THEN IF ~remove_ics THEN merged(data)
                  ELSE IF ~canTruncate(rank)
                  THEN [err |-> "ValueError_truncate", outputs |-> outs]
                  ELSE IF rank = 1
                  THEN merged(IF name = "t"
                              THEN shiftedTime(data, At1(outs[name], -1), startindt, dt)
                              ELSE SubSeq(data, startindt + 1, Len(data)))
                  ELSE merged(ColsFrom(data, startindt))
             ELSE stored(data, rank)
        ELSE \* lines 187-206: the group is created when missing, the entry is set
             [err |-> "none",
              outputs |-> [outs EXCEPT ![keys[1]] =
                              [(IF @ = << >> THEN noGroup ELSE @) EXCEPT ![keys[2]] = data]]]

\* a chunk without the one sample added to the warm-up, of one sample at least
chunkDurationNoExtra(chunksize, totalDuration, lastT, dt, maxDelay) ==
    Max(dt, Min(chunksize * dt, totalDuration - lastT) + maxDelay * dt)

\* lines 93-96: currentChunkSize * dt
chunkDuration(chunksize, totalDuration, lastT, dt, maxDelay) ==
    Min(chunksize * dt, totalDuration - lastT) + (maxDelay + 1) * dt

\* Model.integrate(append_outputs), line 74: the call of self.integration
StartIntegrate(append) ==
    /\ pc = "idle"
    /\ ctl.mode \in {"none", "integrate"}
    /\ ctl.runs < MaxCalls
    /\ ctl' = [ctl EXCEPT !.mode = "integrate", !.append = append]
    /\ pc' = "setup"
    /\ calls' = calls + 1
    /\ loc' = noLocals(rng)
    /\ UNCHANGED <<params, rng, err, ret, prev, between, outputs, state>>

\* lines 77-82: the outputs once t and the output variables x and y of the
\* result r are stored
storeResult(outs, r, append, startindt, dt) ==
    LET o1 == setOutput(outs, "t", r.t, 1, append, TRUE, startindt, dt).outputs
        o2 == setOutput(o1, "x", r.xs, 2, append, TRUE, startindt, dt).outputs
    IN  setOutput(o2, "y", r.ys, 2, append, TRUE, startindt, dt).outputs

\* lines 76-83: integrate stores what the integration returned
IntegrateStore ==
    /\ pc = "returned"
    /\ ctl.mode \in {"integrate", "chunk"}
    /\ outputs' = storeResult(outputs, ret, ctl.append, startindtOf(ctl), params.dt)
    /\ state' = [t |-> ret.t, x |-> ret.xs, y |-> ret.ys]
    /\ IF ctl.mode = "chunk"
       THEN pc' = "reset" /\ ctl' = ctl
       ELSE pc' = "idle" /\ ctl' = [ctl EXCEPT !.runs = @ + 1]
    /\ UNCHANGED <<params, rng, err, loc, ret, prev, calls, between>>

\* lines 85-90: integrate_chunkwise(chunksize, simulate_bold, append_outputs)
\* up to the loop
StartChunkwise(chunksize, simulate_bold, append) ==
    /\ pc = "idle"
    /\ ctl.mode = "none"
    /\ ctl' = [ctl EXCEPT !.mode = "chunk", !.append = append, !.chunksize = chunksize,
                          !.simulate_bold = simulate_bold,
                          !.totalDuration = params.duration, !.lastT = 0]
    /\ pc' = "head"
    /\ UNCHANGED <<params, rng, err, loc, ret, prev, calls, between, outputs, state>>

\* lines 91-96 and 109-120: the loop test, and autochunk up to its call of integrate
ChunkHead ==
    /\ pc = "head"
    /\ IF ctl.lastT < ctl.totalDuration
       THEN /\ ctl.chunks < MaxChunks
            /\ params' = [params EXCEPT !.duration =
                              chunkDuration(ctl.chunksize, ctl.totalDuration, ctl.lastT,
                                            params.dt, ctl.maxDelay)]
            /\ pc' = "setup"
            /\ calls' = calls + 1
            /\ loc' = noLocals(rng)
            /\ ctl' = ctl
       ELSE /\ pc' = "idle"
            /\ ctl' = [ctl EXCEPT !.runs = @ + 1]
            /\ UNCHANGED <<params, calls, loc>>
    /\ UNCHANGED <<rng, err, ret, prev, between, outputs, state>>

\* lines 122-130: autochunk sets the next initial conditions
AutochunkReset ==
    /\ pc = "reset"
    /\ params' = [params EXCEPT !.xs_init = LastCols(state.x, startindtOf(ctl)),
                                !.ys_init = LastCols(state.y, startindtOf(ctl))]
    /\ pc' = "tail"
    /\ UNCHANGED <<rng, err, loc, ret, prev, calls, between, outputs, state, ctl>>

\* boldModel.run(activity): the collaborator takes the series in, and holds
\* a time vector and a BOLD series with one more sample for each run
boldRun(b, activity) ==
    [runs |-> b.runs + 1,
     input |-> activity,
     t_BOLD |-> Append(b.t_BOLD, b.runs + 1),
     BOLD |-> [r \in 1..Rows(activity) |->
                  (IF b.BOLD = << >> THEN << >> ELSE b.BOLD[r]) \o <<Cols(activity)>>]]

\* lines 98-106: the BOLD signal of the chunk, when it is asked for and the
\* BOLD model was set up; then the elapsed time moves by the chunk's last
\* timestamp
ChunkTail ==
    /\ pc = "tail"
    /\ IF ctl.simulate_bold /\ ctl.bold_initialized
       THEN LET b == boldRun(ctl.bold, state[default_output])
                o1 == setOutput(outputs, "BOLD.t", b.t_BOLD, 1, FALSE, TRUE,
                                startindtOf(ctl), params.dt).outputs
            IN  /\ outputs' = setOutput(o1, "BOLD.BOLD", b.BOLD, 2, FALSE, TRUE,
                                        startindtOf(ctl), params.dt).outputs
                /\ ctl' = [ctl EXCEPT !.bold = b,
                                      !.lastT = @ + At1(state.t, -1), !.chunks = @ + 1]
       ELSE /\ outputs' = outputs
            /\ ctl' = [ctl EXCEPT !.lastT = @ + At1(state.t, -1), !.chunks = @ + 1]
    /\ pc' = "head"
    /\ UNCHANGED <<params, rng, err, loc, ret, prev, calls, between, state>>

\* a caller's setOutput(name, data, append, remove_ics) on the Model
SetOutputCall(name, data, rank, append, remove_ics) ==
    /\ pc = "idle"
    /\ ctl.mode = "store"
    /\ ctl.runs < MaxStores
    /\ LET r == setOutput(outputs, name, data, rank, append, remove_ics,
                          startindtOf(ctl), params.dt)
       IN  outputs' = r.outputs /\ err' = r.err
    /\ ctl' = [ctl EXCEPT !.runs = @ + 1,
                          !.call = [name |-> name, rank |-> rank, append |-> append,
                                    remove_ics |-> remove_ics, data |-> data,
                                    existed |-> isStored(outputs, name)]]
    /\ UNCHANGED <<params, rng, pc, loc, ret, prev, calls, between, state>>

---------------------------------------------------------------------------
(* Parameter sets *)

DtValues == {1, 4}

TauOuValues == {1, 2}

SeedValues == {NoSeed, 0, 2}

CouplingValues == {"diffusive", "additive", "xyz"}

KglValues == {1, 2}

SigmaOuValues == {0, 1}

ExtMeanValues == {0, 1}

\* the external drive's noise amplitude and mean: a noisy drive has mean zero
ExtDrives ==
    {d \in [sigma_ou : SigmaOuValues, x_ext_mean : ExtMeanValues] :
        d.sigma_ou = 0 \/ d.x_ext_mean = 0}

InitValues == {1}

\* the connectivity and length matrices of a network of one or two nodes
Networks ==
    {[Cmat |-> <<<<c>>>>, lengthMat |-> <<<<MaxLength>>>>, signalV |-> 1] : c \in {0, 1}}
    \cup
    {[Cmat |-> <<<<0, 1>>, <<0, 0>>>>, lengthMat |-> <<<<0, l>>, <<0, 0>>>>, signalV |-> v] :
        l \in 0..MaxLength, v \in {1, 2}}
    \cup
    {[Cmat |-> <<<<0, 1>>, <<1, 0>>>>, lengthMat |-> <<<<2, 1>>, <<1, 2>>>>, signalV |-> 1]}

\* initial conditions of `rows` nodes and `width` columns, all columns distinct
InitialConditions(rows, width) ==
    {[xs |-> [r \in 1..rows |-> [k \in 1..width |-> v + (r - 1) + 2 * (k - 1)]],
      ys |-> [r \in 1..rows |-> [k \in 1..width |-> v * k + (r - 1)]]] :
        v \in InitValues}

\* the parameter dictionary before any call: no "Dmat_ndt" entry yet
ParamSets(durations) ==
    {[dt |-> dt, duration |-> duration, seed |-> seed, a |-> 1, w |-> 1,
      tau_ou |-> tau, sigma_ou |-> drive.sigma_ou,
      x_ext_mean |-> drive.x_ext_mean, y_ext_mean |-> 0,
      Cmat |-> net.Cmat, K_gl |-> K, lengthMat |-> net.lengthMat,
      signalV |-> net.signalV, coupling |-> c,
      xs_init |-> ic.xs, ys_init |-> ic.ys, Dmat_ndt |-> << >>] :
        dt \in DtValues, duration \in durations, seed \in SeedValues,
        tau \in TauOuValues, drive \in ExtDrives,
        net \in Networks, K \in KglValues, c \in CouplingValues,
        ic \in UNION {InitialConditions(rows, width) :
                          rows \in 1..2, width \in 1..MaxInitWidth}}

\* line 56: no output stored
noOutputs ==
    [t |-> << >>, x |-> << >>, y |-> << >>, BOLD |-> << >>,
     ndim |-> [t |-> 0, x |-> 0, y |-> 0]]

\* line 57: no state variable stored
noState == [t |-> << >>, x |-> << >>, y |-> << >>]

\* no run started: mode is the kind of the last run started ("direct": the
\* integration is called without a Model)
noControl(mode, maxDelay, p, g) ==
    [mode |-> mode, maxDelay |-> maxDelay, append |-> FALSE, chunksize |-> 0,
     totalDuration |-> 0, lastT |-> 0, chunks |-> 0, runs |-> 0,
     params0 |-> p, rng0 |-> g,
     simulate_bold |-> FALSE, bold_initialized |-> FALSE,
     bold |-> [runs |-> 0, input |-> << >>, t_BOLD |-> << >>, BOLD |-> << >>],
     call |-> [name |-> "", rank |-> 0, append |-> FALSE, remove_ics |-> TRUE,
               data |-> << >>, existed |-> FALSE]]

\* timeIntegration called directly, up to MaxCalls times on the same dictionary
InitTI ==
    /\ params \in {p \in ParamSets(1..MaxDuration) : p.dt % p.tau_ou = 0}
    /\ rng = 0
    /\ pc = "idle"
    /\ err = "none"
    /\ loc = noLocals(0)
    /\ ret = noResult
    /\ prev = noResult
    /\ calls = 0
    /\ between = 0
    /\ outputs = noOutputs
    /\ state = noState
    /\ ctl = noControl("direct", 0, params, 0)

NextTI == Call \/ TI_Setup \/ TI_Init \/ TI_Step \/ TI_Return \/ OtherDraw

SpecTI == InitTI /\ [][NextTI]_vars

\* the parameter sets a Model is run on: a known coupling scheme, a seed,
\* and single-column initial conditions with one row per node
ModelParamSets ==
    {p \in ParamSets(1..MaxTotal) :
        /\ p.dt % p.tau_ou = 0
        /\ couplingCode(p.coupling) # -1
        /\ Rows(p.xs_init) = Len(p.Cmat) /\ Cols(p.xs_init) = 1
        /\ seedIsSet(p.seed) /\ p.K_gl = 1 /\ p.signalV = 1}

\* a Model on the Hopf integrator before its first run; getMaxDelay() is the
\* superclass's 0 or the subclass's largest delay in steps, and the BOLD model
\* is set up when the constructor is given simulate_bold (lines 60-71)
InitModel ==
    /\ params \in ModelParamSets
    /\ rng = 0
    /\ pc = "idle"
    /\ err = "none"
    /\ loc = noLocals(0)
    /\ ret = noResult
    /\ prev = noResult
    /\ calls = 0
    /\ between = 0
    /\ outputs = noOutputs
    /\ state = noState
    /\ \E m \in {0, MaxOfMat(delaySteps(params))}, bold_initialized \in BOOLEAN :
           ctl = [noControl("none", m, params, 0) EXCEPT
                      !.bold_initialized = bold_initialized]

NextModel ==
    \/ \E append \in BOOLEAN : StartIntegrate(append)
    \/ \E chunksize \in 0..MaxChunkSize, simulate_bold \in BOOLEAN, append \in BOOLEAN :
           StartChunkwise(chunksize, simulate_bold, append)
    \/ ChunkHead
    \/ TI_Setup \/ TI_Init \/ TI_Step \/ TI_Return
    \/ IntegrateStore
    \/ AutochunkReset
    \/ ChunkTail

SpecModel == InitModel /\ [][NextModel]_vars

\* the data of direct setOutput calls: time vectors and series of one sample
\* past the warm-up or of none, as 1-D, 2-D (one node) and 3-D arrays
DataLengths == {startindtOf(ctl), startindtOf(ctl) + 1}

TimeVectors == {[k \in 1..n |-> (k - 1) * params.dt] : n \in DataLengths}

Series1 == {[k \in 1..n |-> 10 + k] : n \in DataLengths}

Series2 == {<<[k \in 1..n |-> 20 + k]>> : n \in DataLengths}

Series3 == {<<[k \in 1..n |-> <<30 + k>>]>> : n \in DataLengths}

\* a Model whose outputs callers set directly, before any run or after one
\* integrate(); getMaxDelay() is 0 or an overriding 1
InitOut ==
    /\ params \in {p \in ModelParamSets :
                      /\ p.duration = 2 /\ p.seed = 2 /\ p.tau_ou = 1
                      /\ Len(p.Cmat) = 1 /\ p.Cmat[1][1] = 0 /\ p.coupling = "diffusive"
                      /\ p.sigma_ou = 0 /\ p.x_ext_mean = 0}
    /\ rng = 0
    /\ pc = "idle"
    /\ err = "none"
    /\ loc = noLocals(0)
    /\ ret = noResult
    /\ prev = noResult
    /\ calls = 0
    /\ between = 0
    /\ state = noState
    /\ \E m \in {0, 1} : ctl = noControl("store", m, params, 0)
    /\ outputs \in {noOutputs,
                     storeResult(noOutputs, timeIntegration(params, 0), FALSE,
                                 startindtOf(ctl), params.dt)}

NextOut ==
    \E append \in BOOLEAN, remove_ics \in BOOLEAN :
        \/ \E data \in TimeVectors : SetOutputCall("t", data, 1, append, remove_ics)
        \/ \E data \in Series1 : SetOutputCall("x", data, 1, append, remove_ics)
        \/ \E name \in {"x", "BOLD.BOLD"}, data \in Series2 :
               SetOutputCall(name, data, 2, append, remove_ics)
        \/ \E data \in Series3 : SetOutputCall("x", data, 3, append, remove_ics)

SpecOut == InitOut /\ [][NextOut]_vars

---------------------------------------------------------------------------
(* Claims about timeIntegration, checked under SpecTI *)

\* the call has left the time loop's entry at least once: step i - 1 is the last done
Stepped == pc \in {"loop", "returned"} /\ loc.steps >= 1

lastStep == loc.i - 1

\* the initial condition has N rows and is one column or at least startind wide
ShapeFits(p) ==
    /\ Rows(p.xs_init) = Len(p.Cmat)
    /\ Cols(p.xs_init) = 1 \/ Cols(p.xs_init) >= MaxOfMat(delaySteps(p)) + 1

\* C3, as stated: the returned time vector has floor(duration / dt) samples,
\* starts at 0, is spaced dt, and x and y have as many columns.
C3_FloorSamples ==
    pc = "returned" =>
        /\ Len(ret.t) = params.duration \div params.dt
        /\ \A k \in 1..Len(ret.t) : ret.t[k] = (k - 1) * params.dt
        /\ Cols(ret.xs) = Len(ret.t) /\ Cols(ret.ys) = Len(ret.t)

\* C3, amended: the returned time vector has ceil(duration / dt) samples (the
\* least n with duration <= n dt), starts at 0, consecutive samples are dt
\* apart, and x and y have as many columns as t has samples.
C3_CeilSamples ==
    pc = "returned" =>
        LET n == Len(ret.t)
        IN  /\ (n - 1) * params.dt < params.duration
            /\ params.duration <= n * params.dt
            /\ ret.t[1] = 0
            /\ \A k \in 1..(n - 1) : ret.t[k + 1] - ret.t[k] = params.dt
            /\ Cols(ret.xs) = n /\ Cols(ret.ys) = n

\* a call returned for a duration that is no multiple of dt, with several samples
C3_Witness ==
    /\ pc = "returned"
    /\ params.duration % params.dt # 0
    /\ Len(ret.t) >= 2
    /\ loc.N = 2

\* C4: two calls with identical parameters and the same given seed (0
\* included) return identical (t, x, y), whatever was drawn in between.
C4_SameResultGivenSeed ==
    (/\ pc = "returned" /\ calls = 2
     /\ params.seed # NoSeed
     /\ ShapeFits(params)) => ret = prev

\* two calls with seed 0, a foreign draw in between, returned different results
C4_Witness ==
    /\ pc = "returned" /\ calls = 2 /\ between >= 1
    /\ params.seed = 0
    /\ ShapeFits(params)
    /\ ret.t = prev.t
    /\ ret.xs # prev.xs

\* the network of C5: node 1 projects to node 0 over a fibre of length L
IsOneWayPair(p) ==
    /\ p.Cmat = <<<<0, 1>>, <<0, 0>>>>
    /\ p.lengthMat[1][1] = 0 /\ p.lengthMat[2] = <<0, 0>>
    /\ p.coupling = "additive"

\* C5: in the one-way pair with additive coupling, node 0's coupling input at
\* step i is K_gl * x[1, i - 1 - round(L / V / dt)] and node 1's is 0.
C5_DelayedInput ==
    (Stepped /\ IsOneWayPair(params)) =>
        LET d == around(params.lengthMat[1][2], params.signalV * params.dt)
        IN  /\ At1(loc.xs_input_d, 0) = Val(params.K_gl * At2(loc.xs, 1, lastStep - 1 - d))
            /\ At1(loc.xs_input_d, 1) = 0

\* the one-way pair has taken a second step with a delay of one step and a
\* history whose columns differ
C5_Witness ==
    /\ Stepped /\ IsOneWayPair(params)
    /\ loc.steps >= 2
    /\ around(params.lengthMat[1][2], params.signalV * params.dt) = 1
    /\ At2(loc.xs, 1, lastStep - 2) # At2(loc.xs, 1, lastStep - 1)
    /\ At1(loc.xs_input_d, 0) # 0

\* C6, as stated: with one node the coupling input is zero at every step in
\* both coupling modes, whatever Cmat[0, 0] and K_gl are.
C6_NoCouplingOneNode ==
    (Stepped /\ loc.N = 1) =>
        At1(loc.xs_input_d, 0) = 0 /\ At1(loc.ys_input_d, 0) = 0

\* C6, amended: with one node the coupling input is zero at every step in
\* diffusive mode, and in additive mode it is K_gl * Cmat[0, 0] * x[0, i - 1],
\* which is zero when Cmat[0, 0] = 0; the y input is zero in both modes.
C6_OneNodeCoupling ==
    (Stepped /\ loc.N = 1) =>
        /\ loc.coupling = 0 => At1(loc.xs_input_d, 0) = 0
        /\ loc.coupling = 1 =>
               At1(loc.xs_input_d, 0) =
                   Val(params.K_gl * At2(params.Cmat, 0, 0) * At2(loc.xs, 0, lastStep - 1))
        /\ At2(params.Cmat, 0, 0) = 0 => At1(loc.xs_input_d, 0) = 0
        /\ At1(loc.ys_input_d, 0) = 0

\* a single self-connected node has stepped from a nonzero state, diffusively
C6_Witness ==
    /\ Stepped /\ loc.N = 1
    /\ loc.coupling = 0
    /\ At2(params.Cmat, 0, 0) = 1
    /\ At2(loc.xs, 0, lastStep - 1) # 0

\* the warm-up history the call seeds when the samples do not exceed startind
SeededHistory(p, init) ==
    IF Cols(init) = 1 THEN dotOnes(init, Ceil(p.duration, p.dt))
    ELSE LastCols(init, MaxOfMat(delaySteps(p)) + 1)

\* C7: when the samples do not exceed startind, the call ends without error,
\* takes no step and returns the seeded warm-up history, for a single-column
\* initial condition and for a tail of width >= startind.
C7_DegenerateReturnsHistory ==
    (/\ pc \in {"returned", "raised"}
     /\ couplingCode(params.coupling) # -1
     /\ ShapeFits(params)
     /\ Ceil(params.duration, params.dt) <= MaxOfMat(delaySteps(params)) + 1) =>
        /\ pc = "returned"
        /\ loc.steps = 0
        /\ ret.xs = SeededHistory(params, params.xs_init)
        /\ ret.ys = SeededHistory(params, params.ys_init)

\* a tail of width startind met a duration of fewer samples than startind, and
\* the call ended with numpy's shape error
C7_Witness ==
    /\ pc = "raised" /\ err = "ValueError_shape"
    /\ ShapeFits(params)
    /\ Cols(params.xs_init) = MaxOfMat(delaySteps(params)) + 1
    /\ Ceil(params.duration, params.dt) < Cols(params.xs_init)

\* C8: an unknown coupling ends the call with the configuration error before
\* Dmat_ndt is written, a buffer allocated, a number drawn or a step taken.
C8_BadCouplingFailsFirst ==
    couplingCode(params.coupling) = -1 =>
        /\ pc \in {"idle", "setup", "raised"}
        /\ pc = "raised" => err = "ValueError_coupling"
        /\ params.Dmat_ndt = << >>
        /\ loc.t = << >> /\ loc.xs = << >> /\ loc.ys = << >>
        /\ loc.draws = 0 /\ rng = loc.rng0
        /\ loc.steps = 0
        /\ ret = noResult

\* a call has ended with the configuration error
C8_Witness ==
    /\ pc = "raised" /\ err = "ValueError_coupling"
    /\ params.coupling = "xyz"
    /\ calls = 1

\* C10: an initial condition whose row count differs from N, or whose width
\* is neither 1 nor at least startind, ends the call with a shape error,
\* without a step and without a result.
C10_BadShapeFails ==
    (couplingCode(params.coupling) # -1 /\ ~ShapeFits(params)) =>
        /\ pc \notin {"loop", "returned"}
        /\ loc.steps = 0
        /\ ret = noResult
        /\ pc = "raised" => err = "ValueError_shape"

\* a call for one node with a two-row initial condition stepped and returned
\* two-row trajectories
C10_Witness ==
    /\ pc = "returned" /\ err = "none"
    /\ loc.N = 1 /\ Rows(params.xs_init) = 2
    /\ loc.steps >= 1
    /\ Rows(ret.xs) = 2

\* C12: a call that returns has changed the parameter set only by writing
\* Dmat_ndt, the delays lengthMat / signalV / dt rounded to integers with a
\* zero diagonal (the 1 x 1 zero matrix for one node); xs_init, ys_init,
\* duration and every other field are as they were before the first call.
C12_OnlyDmatWritten ==
    pc = "returned" =>
        LET N == Len(params.Cmat)
        IN  /\ params = [ctl.params0 EXCEPT !.Dmat_ndt = params.Dmat_ndt]
            /\ params.Dmat_ndt =
                   [no \in 1..N |-> [l \in 1..N |->
                       IF no = l \/ N = 1 THEN 0
                       ELSE around(params.lengthMat[no][l], params.signalV * params.dt)]]

\* a call on two nodes with fibres on lengthMat's diagonal and a carried tail
\* as initial condition has stepped and returned, with a nonzero delay
C12_Witness ==
    /\ pc = "returned" /\ loc.steps >= 1
    /\ Len(params.Cmat) = 2
    /\ params.lengthMat[1][1] # 0
    /\ params.Dmat_ndt[1][2] # 0
    /\ Cols(params.xs_init) > 1

\* C16: at every step i in startind .. len(t) - 1 and for every pair
\* (no, l), the history column read, i - 1 - Dmat_ndt[no, l], lies in
\* 0 .. i - 1: no read wraps around below column 0 and none touches column i.
C16_ReadsSettledColumns ==
    Stepped =>
        /\ lastStep >= loc.startind /\ lastStep <= Len(loc.t) - 1
        /\ loc.startind >= 1
        /\ \A no, l \in 0..(loc.N - 1) :
               LET column == lastStep - 1 - At2(loc.Dmat_ndt, no, l)
               IN  column >= 0 /\ column <= lastStep - 1

\* the first step of a call on two nodes read the very first column over a
\* delay of two steps
C16_Witness ==
    /\ Stepped /\ loc.steps = 1
    /\ loc.N = 2
    /\ lastStep = loc.startind
    /\ \E no, l \in 0..1 : At2(loc.Dmat_ndt, no, l) = 2 /\ lastStep - 1 - 2 = 0

\* C17: a step i reads the draw stored at x[no, i] / y[no, i] before the
\* Euler result overwrites the cell, advances the oscillator with the
\* external drive the step before left (zero at a call's first step), and
\* only then updates the drive with that draw.
C17_DriveAfterEuler ==
    /\ [](pc = "loop" /\ loc.steps = 0 =>
              loc.x_ext = zeros1(loc.N) /\ loc.y_ext = zeros1(loc.N))
    /\ [][(pc = "loop" /\ loc'.i = loc.i + 1) =>
            \A no \in 0..(loc.N - 1) :
               LET i == loc.i
                   xp == At2(loc.xs, no, i - 1)
                   yp == At2(loc.ys, no, i - 1)
                   drift == params.a - xp * xp - yp * yp
                   drive(ext, mean, noise) ==
                       Val(ext + ((mean - ext) * params.dt) \div params.tau_ou
                               + params.sigma_ou * Sqrt(params.dt) * noise)
               IN  /\ At1(loc'.noise_xs, no) = At2(loc.xs, no, i)
                   /\ At1(loc'.noise_ys, no) = At2(loc.ys, no, i)
                   /\ At2(loc'.xs, no, i) =
                          Val(xp + params.dt * (drift * xp - params.w * yp
                                  + At1(loc'.xs_input_d, no) + At1(loc.x_ext, no)))
                   /\ At2(loc'.ys, no, i) =
                          Val(yp + params.dt * (drift * yp + params.w * xp
                                  + At1(loc'.ys_input_d, no) + At1(loc.y_ext, no)))
                   /\ At1(loc'.x_ext, no) =
                          drive(At1(loc.x_ext, no), params.x_ext_mean, At2(loc.xs, no, i))
                   /\ At1(loc'.y_ext, no) =
                          drive(At1(loc.y_ext, no), params.y_ext_mean, At2(loc.ys, no, i))]_vars

\* a noisy call has taken a second step from a nonzero drive, with a nonzero
\* draw that differs from the Euler result written over it
C17_Witness ==
    /\ Stepped /\ loc.steps >= 2
    /\ params.sigma_ou = 1
    /\ At1(loc.noise_xs, 0) # 0
    /\ At1(loc.noise_xs, 0) # At2(loc.xs, 0, lastStep)
    /\ At1(loc.x_ext, 0) # 0

---------------------------------------------------------------------------
(* Claims about the Model, checked under SpecModel *)

\* the external drive stays at zero: no noise enters it and its mean is zero
NoDrive(p) == p.sigma_ou = 0 /\ p.x_ext_mean = 0 /\ p.y_ext_mean = 0

\* a chunkwise run, the Model's first run, has left its loop
ChunkwiseDone == pc = "idle" /\ ctl.mode = "chunk" /\ ctl.runs = 1

\* what one call over the whole duration returns for the run's parameters
Whole == timeIntegration(ctl.params0, ctl.rng0)

\* C1: with appending, a chunkwise run over duration D in chunks of at least
\* one sample stitches x and y outputs that equal, sample for sample and in
\* number, those of one call over D with the same seed; stated where the
\* external drive stays zero (so that its reset cannot matter) and
\* getMaxDelay is the integrator's largest delay.
C1_StitchedEqualsWhole ==
    (/\ ChunkwiseDone /\ ctl.append /\ ctl.chunksize >= 1
     /\ seedIsSet(ctl.params0.seed)
     /\ NoDrive(ctl.params0)
     /\ ctl.maxDelay = MaxOfMat(delaySteps(ctl.params0))) =>
        outputs.x = Whole.xs /\ outputs.y = Whole.ys

\* a run in chunks of one sample without delays ended with one sample more
\* than the single call returns
C1_Witness ==
    /\ ChunkwiseDone /\ ctl.append /\ ctl.chunksize = 1
    /\ seedIsSet(ctl.params0.seed)
    /\ NoDrive(ctl.params0)
    /\ ctl.maxDelay = 0 /\ MaxOfMat(delaySteps(ctl.params0)) = 0
    /\ ctl.chunks >= 2
    /\ Cols(outputs.x) = Len(Whole.t) + 1

\* C2: the stitched time output starts at 0 and every timestamp is dt after
\* the one before it, so the series is strictly increasing and no timestamp
\* is repeated or reset by an append.
C2_TimeContinues ==
    outputs.t # << >> =>
        /\ outputs.t[1] = 0
        /\ \A k \in 1..(Len(outputs.t) - 1) : outputs.t[k + 1] - outputs.t[k] = params.dt
        /\ \A j, k \in 1..Len(outputs.t) : j < k => outputs.t[j] < outputs.t[k]

\* the time vectors of a second and a third chunk, each longer than the
\* warm-up of two samples, have been appended to the first chunk's
C2_Witness ==
    /\ pc = "reset" /\ ctl.append /\ ctl.chunks = 2
    /\ startindtOf(ctl) = 2
    /\ Len(state.t) > startindtOf(ctl)
    /\ Len(outputs.t) > Len(state.t) + 1

\* C9: a chunksize of 0 leaves every chunk with its warm-up samples only; the
\* run ends with an error before any such chunk completes.
C9_EmptyChunkIsFatal ==
    (ctl.mode = "chunk" /\ ctl.chunksize = 0) => ctl.chunks = 0

\* chunks of no sample completed one after the other without an error and
\* without lastT advancing
C9_Witness ==
    /\ ctl.mode = "chunk" /\ ctl.chunksize = 0
    /\ ctl.chunks >= 2
    /\ ctl.lastT = 0
    /\ err = "none"

\* a later chunk of a chunkwise run has seeded its buffers and not yet returned
InLaterChunk == ctl.mode = "chunk" /\ pc = "loop" /\ ctl.chunks >= 1

\* the first startind columns of the running chunk's x and y buffers are the
\* last startind columns of the chunk before, which self.state still holds
PrefixIsTail ==
    \A r \in 1..loc.N : \A k \in 1..loc.startind :
        /\ loc.xs[r][k] = state.x[r][Cols(state.x) - loc.startind + k]
        /\ loc.ys[r][k] = state.y[r][Cols(state.y) - loc.startind + k]

\* C15, as stated: in a chunkwise run the warm-up prefix of chunk k+1's x and
\* y buffers equals, column for column, the last startind columns of chunk
\* k's trajectory, startind being the same for autochunk and the integrator.
C15_PrefixIsTailAlways ==
    InLaterChunk =>
        /\ startindtOf(ctl) = loc.startind
        /\ PrefixIsTail

\* C15, amended: the same, when getMaxDelay() returns the integrator's
\* largest delay in steps.
C15_PrefixIsTailWhenDelaysAgree ==
    (InLaterChunk /\ ctl.maxDelay = MaxOfMat(loc.Dmat_ndt)) =>
        /\ startindtOf(ctl) = loc.startind
        /\ PrefixIsTail

\* a second chunk runs on a warm-up of two columns that differ in the chunk
\* before
C15_Witness ==
    /\ InLaterChunk /\ loc.steps >= 1
    /\ ctl.maxDelay = 1 /\ loc.startind = 2
    /\ At2(state.x, 0, -1) # At2(state.x, 0, -2)
    /\ At2(loc.xs, 0, 0) # At2(loc.xs, 0, 1)


\* the loop of a chunkwise run with appending and chunks of at least one
\* sample is at its test, after one chunk or more
AfterChunk ==
    /\ ctl.mode = "chunk" /\ pc = "head" /\ ctl.chunks >= 1
    /\ ctl.append /\ ctl.chunksize >= 1

\* C18: with appending, after every chunk lastT is the final timestamp of the
\* stitched t output, whatever getMaxDelay() returns.
C18_LastTIsElapsed ==
    AfterChunk => ctl.lastT = At1(outputs.t, -1)

\* after two chunks with getMaxDelay() = 1, lastT is past the stitched t
C18_Witness ==
    /\ AfterChunk /\ ctl.chunks = 2
    /\ ctl.maxDelay = 1
    /\ ctl.lastT > At1(outputs.t, -1)

\* a chunkwise run in chunks of at least one sample is under way
ChunkwiseRunning == ctl.mode = "chunk" /\ ctl.chunksize >= 1 /\ ctl.runs = 0

\* C19: with chunks of at least one sample, every chunk moves lastT up by dt
\* or more, the loop is bounded by the total duration read on entry, whatever
\* autochunk writes into params["duration"], and so the loop ends within
\* ceil(totalDuration / dt) chunks: no call fails, and the next chunk starts
\* whenever lastT is below the total duration.
C19_ChunksAdvanceAndEnd ==
    /\ [][(ChunkwiseRunning /\ pc = "tail") => ctl'.lastT >= ctl.lastT + params.dt]_vars
    /\ [](ChunkwiseRunning =>
              /\ ctl.totalDuration = ctl.params0.duration
              /\ ctl.chunks * params.dt <= ctl.lastT
              /\ ctl.chunks <= Ceil(ctl.totalDuration, params.dt)
              /\ pc # "raised"
              /\ (pc = "head" /\ ctl.lastT < ctl.totalDuration) => ENABLED ChunkHead)

\* a third chunk has moved lastT while params["duration"] holds a chunk's
\* duration, not the total
C19_Witness ==
    /\ ChunkwiseRunning /\ pc = "head" /\ ctl.chunks = 3
    /\ params.duration # ctl.totalDuration
    /\ ctl.lastT >= ctl.totalDuration


\* integrate is about to append what the integration returned to outputs
\* that exist
Appending ==
    /\ pc = "returned" /\ ctl.mode \in {"integrate", "chunk"}
    /\ ctl.append /\ outputs.t # << >>

\* the samples of a call's result past the warm-up: none when the result is
\* no longer than the warm-up
PastWarmup(n, startindt) == IF n >= startindt THEN n - startindt ELSE 0

\* C20: the stitched t, x and y outputs have the same number of time samples
\* after any sequence of integrate calls: the first call's result is stored
\* whole, and an appending call adds its samples past the first startindt to
\* t, x and y alike.
C20_SameSampleCount ==
    /\ [](Cols(outputs.x) = Len(outputs.t) /\ Cols(outputs.y) = Len(outputs.t))
    /\ [][(pc = "returned" /\ ctl.mode \in {"integrate", "chunk"}) =>
            IF Appending
            THEN LET more == PastWarmup(Len(ret.t), startindtOf(ctl))
                 IN  /\ Len(outputs'.t) = Len(outputs.t) + more
                     /\ Cols(outputs'.x) = Cols(outputs.x) + more
                     /\ Cols(outputs'.y) = Cols(outputs.y) + more
            ELSE /\ Len(outputs'.t) = Len(ret.t)
                 /\ Cols(outputs'.x) = Len(ret.t) /\ Cols(outputs'.y) = Len(ret.t)]_vars

\* a second integrate call with appending, on a Model with getMaxDelay() = 1,
\* has added its samples past the warm-up of two to those of the first call
C20_Witness ==
    /\ ctl.mode = "integrate" /\ ctl.runs = 2 /\ ctl.append
    /\ startindtOf(ctl) = 2
    /\ Len(state.t) > 2
    /\ Len(outputs.t) > Len(state.t)
    /\ Cols(outputs.x) = Len(outputs.t)


\* the loop of a chunkwise run is at its test
AtLoopTest == ctl.mode = "chunk" /\ pc = "head"

\* the collaborator ran only if asked for and set up, and then once for each
\* completed chunk, its result being stored under BOLD.t and BOLD.BOLD
BoldOncePerChunk ==
    /\ ctl.bold.runs > 0 => ctl.simulate_bold /\ ctl.bold_initialized
    /\ (ctl.simulate_bold /\ ctl.bold_initialized) => ctl.bold.runs = ctl.chunks
    /\ IF ctl.bold.runs > 0
       THEN outputs.BOLD = [t |-> ctl.bold.t_BOLD, BOLD |-> ctl.bold.BOLD]
       ELSE outputs.BOLD = << >>

\* C11, as stated: in a chunkwise run the collaborator is invoked only when
\* simulate_bold is asked for and the BOLD model was set up, once after each
\* chunk, on the x output stitched over all chunks so far, and its result is
\* stored under BOLD.t and BOLD.BOLD.
C11_BoldGetsStitched ==
    AtLoopTest =>
        /\ BoldOncePerChunk
        /\ ctl.bold.runs > 0 => ctl.bold.input = outputs.x

\* C11, amended: the same, on the latest chunk's x series as self.state holds
\* it, warm-up columns included.
C11_BoldGetsLatestChunk ==
    AtLoopTest =>
        /\ BoldOncePerChunk
        /\ ctl.bold.runs > 0 => ctl.bold.input = state.x

\* the collaborator ran after the second chunk of an appending run with a
\* warm-up of two columns, on a series that is not the stitched one
C11_Witness ==
    /\ AtLoopTest /\ ctl.append /\ ctl.chunks = 2
    /\ ctl.simulate_bold /\ ctl.bold_initialized
    /\ startindtOf(ctl) = 2
    /\ ctl.bold.runs = 2
    /\ ctl.bold.input # outputs.x
    /\ Cols(outputs.BOLD.BOLD) = 2


---------------------------------------------------------------------------
(* Claims about setOutput, checked under SpecOut *)

\* a caller's setOutput with append = True has just returned or raised, for
\* a name that was in the outputs
AppendedToStored ==
    /\ ctl'.runs = ctl.runs + 1
    /\ ctl'.call.append /\ ctl'.call.existed

\* C13: a setOutput with append = True for a stored name, plain or dotted,
\* that returns leaves under the name the stored data followed by the new
\* data past its first startindt samples (columns, for 2-D data).
C13_AppendConcatenates ==
    [][(/\ AppendedToStored /\ ctl'.call.remove_ics
        /\ ctl'.call.rank \in {1, 2}
        /\ err' = "none") =>
          LET name == ctl'.call.name
              old == storedAs(outputs, name)
              new == storedAs(outputs', name)
              n == IF ctl'.call.rank = 1 THEN Len(ctl'.call.data)
                   ELSE Cols(ctl'.call.data)
              more == IF n >= startindtOf(ctl) THEN n - startindtOf(ctl) ELSE 0
          IN  IF ctl'.call.rank = 1
              THEN /\ Len(new) = Len(old) + more
                   /\ SubSeq(new, 1, Len(old)) = old
                   /\ name # "t" =>
                          SubSeq(new, Len(old) + 1, Len(new)) =
                              SubSeq(ctl'.call.data, startindtOf(ctl) + 1, n)
              ELSE /\ Cols(new) = Cols(old) + more
                   /\ \A r \in 1..Len(old) :
                          /\ SubSeq(new[r], 1, Len(old[r])) = old[r]
                          /\ SubSeq(new[r], Len(old[r]) + 1, Len(new[r])) =
                                 SubSeq(ctl'.call.data[r], startindtOf(ctl) + 1, n)]_vars

\* an appending setOutput for the stored name BOLD.BOLD left the new data
\* alone under the name, its first startindt columns included
C13_Witness ==
    /\ ctl.mode = "store" /\ ctl.runs = 2
    /\ ctl.call.name = "BOLD.BOLD" /\ ctl.call.append /\ ctl.call.existed
    /\ ctl.call.remove_ics
    /\ Cols(ctl.call.data) > startindtOf(ctl)
    /\ err = "none"
    /\ outputs.BOLD.BOLD = ctl.call.data

\* C14, as stated: a setOutput with append = True for a stored array and new
\* data of rank 3 raises, and leaves every output as it was.
C14_BadRankRaises ==
    [][(AppendedToStored /\ ctl'.call.rank = 3) =>
          err' # "none" /\ outputs' = outputs]_vars

\* C14, amended: the same for calls that leave remove_ics at True; the error
\* is the ValueError of line 173.
C14_BadRankRaisesWhenCutting ==
    [][(AppendedToStored /\ ctl'.call.rank = 3 /\ ctl'.call.remove_ics) =>
          err' = "ValueError_truncate" /\ outputs' = outputs]_vars

\* a setOutput with 3-D data raised on a Model that holds t, x and y of a run
C14_Witness ==
    /\ ctl.mode = "store" /\ ctl.runs >= 1
    /\ ctl.call.rank = 3 /\ ctl.call.append /\ ctl.call.existed
    /\ ctl.call.remove_ics
    /\ err = "ValueError_truncate"
    /\ outputs.ndim.x = 2 /\ outputs.t # << >> /\ outputs.y # << >>


=============================================================================
